---- MODULE Spec2Model ----
(***************************************************************************)
(* Model of the <bible-guess-game> custom element                          *)
(* (src/bible-guess-game.js).  The element's reactive fields are the       *)
(* state; every method, timer callback, promise continuation and framework *)
(* update is one action.  The browser's event loop is modelled as far as   *)
(* the code relies on it: tasks (timer callbacks, fetch completions) start *)
(* only when the microtask queue is empty, microtasks (the framework's     *)
(* update and the updateComplete callbacks) run one at a time, and a       *)
(* script that dispatches events synchronously may call several handlers   *)
(* before the microtasks of its task run.                                  *)
(***************************************************************************)
EXTENDS Integers, Sequences, FiniteSets

\* ------------------------------------------------------------------ bounds
MaxScore == 2      \* correct guesses explored
MaxMounts == 2     \* connectedCallback invocations explored
MaxLoads == 2      \* loadVerses invocations in flight at once
MaxReveals == 2    \* updateComplete callbacks of submitGuess queued at once
MaxSeconds == 3    \* timer callbacks explored when the user takes part
LateTime == 1      \* seconds left where the exploration of a game's end sets in
MaxTicks == 182    \* timer callbacks explored when the game runs unattended

\* --------------------------------------------------------------- constants
InitialTime == 180

\* ----------------------------------------------------------------- strings
\* A JavaScript string is a sequence of one-character strings.
Lower == [c \in {"J", "O", "B", "A", "M", "S"} |->
            CASE c = "J" -> "j" [] c = "O" -> "o" [] c = "B" -> "b"
              [] c = "A" -> "a" [] c = "M" -> "m" [] c = "S" -> "s"]

toLowerCase(s) == [i \in 1..Len(s) |-> IF s[i] \in DOMAIN Lower THEN Lower[s[i]] ELSE s[i]]

WhiteSpace == {" "}

RECURSIVE trimStart(_)
trimStart(s) == IF s # <<>> /\ Head(s) \in WhiteSpace THEN trimStart(Tail(s)) ELSE s

RECURSIVE trimEnd(_)
trimEnd(s) == IF s # <<>> /\ s[Len(s)] \in WhiteSpace
                THEN trimEnd(SubSeq(s, 1, Len(s) - 1)) ELSE s

\* A trim that returns its argument as it is.
trim_None(s) == s

\* input.value.trim()
trim(s) == trimEnd(trimStart(s))

\* `${undefined}` inside a template literal
UndefinedText == <<"u", "n", "d", "e", "f", "i", "n", "e", "d">>

\* ------------------------------------------------------- the remote store
\* The book list of ./bible-api.js and the documents of the remote store.
Books == { [id |-> <<"j", "b">>, en |-> <<"J", "o", "b">>],
           [id |-> <<"a", "m">>, en |-> <<"A", "m", "o", "s">>] }

Documents(b) == IF b.id = <<"j", "b">> THEN << <<"t1", "t2">> >> ELSE << <<"t3">> >>

\* How a load can fail: fetch rejects, response.json() throws, or the
\* document has no chapter to map over.
Failures == {"fetch", "json", "chapters"}

\* What the user can have typed into #guess.
Inputs == { <<>>, <<" ">>, <<" ", "j", "o", "b", " ">>, <<"J", "O", "B">>, <<"A", "m", "o", "s">> }

\* ----------------------------------------------------------------- values
EmptyObject == [kind |-> "object"]        \* {}
Undefined == [kind |-> "undefined"]       \* verses[NaN-free index of an empty array]
Null == 0                                 \* this._timerInterval = null

Verse(b, chapterIndex, verseIndex, text) ==
  [kind |-> "verse", text |-> text, book |-> b.en, chapterNumber |-> chapterIndex + 1,
   verseNumber |-> verseIndex + 1, language |-> "en"]

ErrorRecord(b) ==
  [kind |-> "verse", text |-> "Error, could not find this book id on the API:", book |-> b.id]

\* chapter.map((verse, verseIndex) => ({...}))
MapChapter(b, c) ==
  [i \in 1..Len(Documents(b)[c]) |-> Verse(b, c - 1, i - 1, Documents(b)[c][i])]

Range(s) == {s[i] : i \in 1..Len(s)}

NoMessage == [text |-> ""]
CorrectMessage == [text |-> "Correct!"]
WrongMessage(book) == [text |-> "Wrong! Correct book: ", book |-> book]
SkippedMessage(book) == [text |-> "Skipped! Correct book: ", book |-> book]
EndedMessage(n) == [text |-> "Time's up! Final score: ", score |-> n]

\* this.currentVerse.book, for a currentVerse that is an object
BookOf(v) == IF "book" \in DOMAIN v THEN v.book ELSE UndefinedText

VARIABLES
  verses, currentVerse, score, timeLeft, feedbackVisible, feedbackStatus,
  feedbackMessage, gameEnded, timerInterval,
  intervals,        \* the browser's active setInterval handles
  connected,        \* the element is in the document
  mounts,           \* connectedCallback invocations so far
  loads,            \* loadVerses invocations awaiting the network
  updatePending,    \* the framework's isUpdatePending
  changedCurrent,   \* changedProperties.has('currentVerse')
  poolReplaced,     \* this.verses was reassigned since currentVerse was drawn
  revealsWaiting,   \* submitGuess callbacks on a pending updateComplete
  revealsReady,     \* submitGuess callbacks whose updateComplete has resolved
  dom,              \* which controls the last render left in the document
  scriptTask,       \* the running task is a script dispatching events
  thrown,           \* the exception that escaped the last step, if any
  ticks,            \* timer callbacks run since the initial state
  lastOp            \* the control used in the last step, if it was one

component == <<verses, currentVerse, score, timeLeft, feedbackVisible, feedbackStatus,
               feedbackMessage, gameEnded, timerInterval>>
vars == <<verses, currentVerse, score, timeLeft, feedbackVisible, feedbackStatus,
          feedbackMessage, gameEnded, timerInterval, intervals, connected, mounts, loads,
          updatePending, changedCurrent, poolReplaced, revealsWaiting, revealsReady, dom,
          scriptTask, thrown, ticks, lastOp>>

Callers == {"connectedCallback", "updated"}

InFlight == loads["connectedCallback"] + loads["updated"]

\* ------------------------------------------------------------- event loop
MicrotasksQueued(up, rw, rr, m) == (up /\ m > 0) \/ rw > 0 \/ rr > 0

Drained == ~MicrotasksQueued(updatePending, revealsWaiting, revealsReady, mounts)

\* A handler can be called by a task of its own, or by the script task
\* whose microtasks are still queued.
CanCall == Drained \/ scriptTask

\* loads the queued update will start (updated() sees currentVerse changed)
Owed == IF updatePending /\ changedCurrent THEN 1 ELSE 0

\* The element as its constructor leaves it.
Init ==
  /\ verses = <<>>
  /\ score = 0
  /\ timeLeft = InitialTime
  /\ feedbackVisible = FALSE
  /\ feedbackStatus = ""
  /\ feedbackMessage = NoMessage
  /\ gameEnded = FALSE
  /\ currentVerse = EmptyObject
  /\ timerInterval = Null
  /\ intervals = {}
  /\ connected = FALSE
  /\ mounts = 0
  /\ loads = [k \in Callers |-> 0]
  /\ updatePending = TRUE
  /\ changedCurrent = TRUE
  /\ poolReplaced = FALSE
  /\ revealsWaiting = 0
  /\ revealsReady = 0
  /\ dom = [rendered |-> FALSE, input |-> FALSE, next |-> FALSE]
  /\ scriptTask = FALSE
  /\ thrown = ""
  /\ ticks = 0
  /\ lastOp = ""

\* ------------------------------------------------------------- the render
\* render(): the controls the template leaves in the document.
render ==
  [rendered |-> TRUE,
   input |-> ~feedbackVisible /\ ~gameEnded,
   next |-> feedbackVisible /\ feedbackStatus # "ended"]

\* render() reads this.currentVerse.chapterNumber: a TypeError when
\* currentVerse is undefined.
renderThrows == currentVerse = Undefined

\* -------------------------------------------------------------- lifecycle
\* connectedCallback(), up to its await: the framework enables updating and
\* loadVerses() picks a book and issues the fetch.
connectedCallback ==
  /\ ~connected
  /\ mounts < MaxMounts
  /\ CanCall
  /\ InFlight + Owed + 1 <= MaxLoads
  /\ connected' = TRUE
  /\ mounts' = mounts + 1
  /\ loads' = [loads EXCEPT !["connectedCallback"] = @ + 1]
  /\ scriptTask' = MicrotasksQueued(updatePending, revealsWaiting, revealsReady, mounts + 1)
  /\ lastOp' = ""
  /\ thrown' = ""
  /\ UNCHANGED <<component, intervals, updatePending, changedCurrent, poolReplaced,
                 revealsWaiting, revealsReady, dom, ticks>>

\* disconnectedCallback(): clearInterval(this._timerInterval)
disconnectedCallback ==
  /\ connected
  /\ CanCall
  /\ connected' = FALSE
  /\ intervals' = intervals \ {timerInterval}
  /\ scriptTask' = MicrotasksQueued(updatePending, revealsWaiting, revealsReady, mounts)
  /\ lastOp' = ""
  /\ thrown' = ""
  /\ UNCHANGED <<component, mounts, loads, updatePending, changedCurrent, poolReplaced,
                 revealsWaiting, revealsReady, dom, ticks>>

\* ------------------------------------------------------------- loadVerses
\* A load that appends the chapter to the pool it finds.
versesAfterLoad_Append(pool, chapter) == pool \o chapter

\* this.verses = chapter.map(...) with `pool` the value of this.verses before
versesAfterLoad(pool, chapter) == chapter

\* loadVerses() called by updated() settles with a chapter: the pool is
\* replaced wholesale and an update is requested.
loadVersesResolves(b, c) ==
  /\ Drained
  /\ loads["updated"] > 0
  /\ c \in 1..Len(Documents(b))
  /\ loads' = [loads EXCEPT !["updated"] = @ - 1]
  /\ verses' = versesAfterLoad(verses, MapChapter(b, c))
  /\ poolReplaced' = TRUE
  /\ updatePending' = TRUE
  /\ scriptTask' = FALSE
  /\ lastOp' = ""
  /\ thrown' = ""
  /\ UNCHANGED <<currentVerse, score, timeLeft, feedbackVisible, feedbackStatus,
                 feedbackMessage, gameEnded, timerInterval, intervals, connected, mounts,
                 changedCurrent, revealsWaiting, revealsReady, dom, ticks>>

\* loadVerses() fails, whoever called it: the catch block runs.  `randomBB`
\* is declared with const inside the try block, so the catch block's
\* `randomBB.id` is a ReferenceError: this.verses is not assigned and the
\* error escapes loadVerses.  When the caller is connectedCallback the
\* rejection ends connectedCallback before startGame().
loadVersesFails(caller, b, f) ==
  /\ Drained
  /\ loads[caller] > 0
  /\ loads' = [loads EXCEPT ![caller] = @ - 1]
  /\ f \in Failures
  /\ thrown' = "ReferenceError"
  /\ scriptTask' = FALSE
  /\ lastOp' = ""
  /\ UNCHANGED <<component, intervals, connected, mounts, updatePending, changedCurrent,
                 poolReplaced, revealsWaiting, revealsReady, dom, ticks>>

\* ---------------------------------------------------------------- nextVerse
\* A draw that rounds the index and so can run past the end of the pool.
Draw_Round(p) == Range(p) \cup {Undefined}

\* this.verses[Math.floor(Math.random() * this.verses.length)] on pool p
Draw(p) == IF p = <<>> THEN {Undefined} ELSE Range(p)

\* The assignment this.currentVerse = v changes the property (a different
\* object) when the pool was replaced since the last draw or v is another
\* element of the same pool.
DrawChanges(replaced, v) == replaced \/ v # currentVerse

\* nextVerse() drawing v from pool p (p is this.verses at the call, replaced
\* since the last draw or not)
nextVerse(p, replaced, v) ==
  /\ v \in Draw(p)
  /\ feedbackVisible' = FALSE
  /\ feedbackStatus' = ""
  /\ feedbackMessage' = NoMessage
  /\ currentVerse' = v
  /\ changedCurrent' = (changedCurrent \/ DrawChanges(replaced, v))
  /\ poolReplaced' = FALSE

\* startGame(): nextVerse() and a new interval whose handle overwrites
\* this._timerInterval
startGame(p, replaced, v) ==
  /\ nextVerse(p, replaced, v)
  /\ timerInterval' = timerInterval + 1
  /\ intervals' = intervals \cup {timerInterval + 1}

\* The initial loadVerses() of connectedCallback settles with a chapter and
\* connectedCallback goes on to startGame().
connectedCallbackResumes(b, c, v) ==
  /\ Drained
  /\ loads["connectedCallback"] > 0
  /\ c \in 1..Len(Documents(b))
  /\ loads' = [loads EXCEPT !["connectedCallback"] = @ - 1]
  /\ verses' = versesAfterLoad(verses, MapChapter(b, c))
  /\ startGame(MapChapter(b, c), TRUE, v)
  /\ updatePending' = TRUE
  /\ scriptTask' = FALSE
  /\ lastOp' = ""
  /\ thrown' = ""
  /\ UNCHANGED <<score, timeLeft, gameEnded, connected, mounts, revealsWaiting,
                 revealsReady, dom, ticks>>

\* The Next button: rendered only inside the feedback overlay, and not for
\* the 'ended' status.
NextClick(v) ==
  /\ connected
  /\ dom.next
  /\ CanCall
  /\ InFlight + 1 <= MaxLoads
  /\ nextVerse(verses, poolReplaced, v)
  /\ updatePending' = (updatePending \/ feedbackVisible \/ feedbackStatus # ""
                         \/ feedbackMessage # NoMessage \/ DrawChanges(poolReplaced, v))
  /\ scriptTask' = MicrotasksQueued(updatePending', revealsWaiting, revealsReady, mounts)
  /\ lastOp' = "nextVerse"
  /\ thrown' = ""
  /\ UNCHANGED <<verses, score, timeLeft, gameEnded, timerInterval, intervals, connected,
                 mounts, loads, revealsWaiting, revealsReady, dom, ticks>>

\* ------------------------------------------------------- framework update
\* An updated() that calls loadVerses after every update.
updatedCallsLoadVerses_Always == TRUE

\* if (changedProperties.has('currentVerse'))
updatedCallsLoadVerses == changedCurrent

\* One update cycle of the framework: render(), then updated(), which calls
\* loadVerses() when currentVerse changed; then updateComplete resolves.  A
\* render that throws skips updated() and rejects updateComplete, so the
\* callbacks waiting on it never run.
performUpdate ==
  /\ updatePending
  /\ mounts > 0
  /\ updatePending' = FALSE
  /\ changedCurrent' = FALSE
  /\ IF renderThrows
       THEN /\ thrown' = "TypeError"
            /\ revealsWaiting' = 0
            /\ UNCHANGED <<dom, loads, revealsReady>>
       ELSE /\ dom' = render
            /\ loads' = IF updatedCallsLoadVerses
                          THEN [loads EXCEPT !["updated"] = @ + 1]
                          ELSE loads
            /\ revealsReady' = revealsReady + revealsWaiting
            /\ revealsWaiting' = 0
            /\ thrown' = ""
  /\ scriptTask' = (scriptTask /\ MicrotasksQueued(FALSE, 0, revealsReady', mounts))
  /\ lastOp' = ""
  /\ UNCHANGED <<component, intervals, connected, mounts, poolReplaced, ticks>>

\* ------------------------------------------------------------ submitGuess
\* A submitGuess that forgets the feedback overlay.
submitGuessReturns_EndedOnly == gameEnded

\* if (this.feedbackVisible || this.gameEnded) return;
submitGuessReturns == feedbackVisible \/ gameEnded

\* A comparison that tells upper case from lower case.
GuessMatches_CaseSensitive(guess, book) == guess = book

\* guess.toLowerCase() === this.currentVerse.book.toLowerCase()
GuessMatches(guess, book) == toLowerCase(guess) = toLowerCase(book)

\* A submitGuess that scores every accepted guess.
scoreAfterGuess_Always(matches) == score + 1

\* if (matches) this.score++
scoreAfterGuess(matches) == IF matches THEN score + 1 ELSE score

\* this.currentVerse.book.toLowerCase() throws when currentVerse is
\* undefined or has no book field
BookThrows == currentVerse = Undefined \/ "book" \notin DOMAIN currentVerse

\* The Submit button and the Enter key of #guess, with `value` typed in.
submitGuess(value) ==
  /\ connected
  /\ dom.input
  /\ CanCall
  /\ lastOp' = "submitGuess"
  /\ UNCHANGED <<verses, currentVerse, timeLeft, feedbackVisible, gameEnded, timerInterval,
                 intervals, connected, mounts, loads, changedCurrent, poolReplaced, dom,
                 ticks>>
  /\ IF submitGuessReturns \/ trim(value) = <<>>
       THEN /\ UNCHANGED <<score, feedbackStatus, feedbackMessage, updatePending,
                           revealsWaiting, revealsReady>>
            /\ thrown' = ""
       ELSE IF BookThrows
       THEN /\ thrown' = "TypeError"
            /\ UNCHANGED <<score, feedbackStatus, feedbackMessage, updatePending,
                           revealsWaiting, revealsReady>>
       ELSE /\ revealsWaiting + revealsReady < MaxReveals
            /\ score' = scoreAfterGuess(GuessMatches(trim(value), currentVerse.book))
            /\ score' <= MaxScore
            /\ IF GuessMatches(trim(value), currentVerse.book)
                 THEN /\ feedbackStatus' = "correct"
                      /\ feedbackMessage' = CorrectMessage
                 ELSE /\ feedbackStatus' = "wrong"
                      /\ feedbackMessage' = WrongMessage(currentVerse.book)
            /\ updatePending' = (updatePending \/ score' # score
                                   \/ feedbackStatus' # feedbackStatus
                                   \/ feedbackMessage' # feedbackMessage)
            /\ IF updatePending' /\ mounts > 0
                 THEN revealsWaiting' = revealsWaiting + 1 /\ UNCHANGED revealsReady
                 ELSE revealsReady' = revealsReady + 1 /\ UNCHANGED revealsWaiting
            /\ thrown' = ""
  /\ scriptTask' = MicrotasksQueued(updatePending', revealsWaiting', revealsReady', mounts)

\* this.updateComplete.then(() => { this.feedbackVisible = true; ... })
revealFeedback ==
  /\ revealsReady > 0
  /\ revealsReady' = revealsReady - 1
  /\ feedbackVisible' = TRUE
  /\ updatePending' = TRUE
  /\ lastOp' = ""
  /\ thrown' = ""
  /\ UNCHANGED <<verses, currentVerse, score, timeLeft, feedbackStatus, feedbackMessage,
                 gameEnded, timerInterval, intervals, connected, mounts, loads,
                 changedCurrent, poolReplaced, revealsWaiting, dom, scriptTask,
                 ticks>>

\* -------------------------------------------------------------- skipVerse
\* A skipVerse that forgets the end of the game.
skipVerseReturns_VisibleOnly == feedbackVisible

\* if (this.feedbackVisible || this.gameEnded) return;
skipVerseReturns == feedbackVisible \/ gameEnded

\* The Skip control.  With currentVerse undefined the message template
\* throws after feedbackStatus was assigned.
skipVerse ==
  /\ connected
  /\ dom.rendered
  /\ CanCall
  /\ lastOp' = "skipVerse"
  /\ UNCHANGED <<verses, currentVerse, score, timeLeft, gameEnded, timerInterval,
                 intervals, connected, mounts, loads, changedCurrent, poolReplaced,
                 revealsWaiting, revealsReady, dom, ticks>>
  /\ IF skipVerseReturns
       THEN /\ UNCHANGED <<feedbackStatus, feedbackMessage, feedbackVisible,
                           updatePending>>
            /\ thrown' = ""
       ELSE IF currentVerse = Undefined
       THEN /\ feedbackStatus' = "skipped"
            /\ updatePending' = (updatePending \/ feedbackStatus # "skipped")
            /\ thrown' = "TypeError"
            /\ UNCHANGED <<feedbackMessage, feedbackVisible>>
       ELSE /\ feedbackStatus' = "skipped"
            /\ feedbackMessage' = SkippedMessage(BookOf(currentVerse))
            /\ feedbackVisible' = TRUE
            /\ updatePending' = TRUE
            /\ thrown' = ""
  /\ scriptTask' = MicrotasksQueued(updatePending', revealsWaiting, revealsReady, mounts)

\* ------------------------------------------------------------------ timer
\* endGame()
endGame ==
  /\ gameEnded' = TRUE
  /\ feedbackStatus' = "ended"
  /\ feedbackMessage' = EndedMessage(score)
  /\ feedbackVisible' = TRUE

\* if (this.timeLeft > 0)
tickDecrements == timeLeft > 0

\* The setInterval callback of interval i.  Its else branch clears the
\* interval this._timerInterval names, which is the latest one set.
tick(i) ==
  /\ i \in intervals
  /\ Drained
  /\ IF tickDecrements
       THEN /\ timeLeft' = timeLeft - 1
            /\ UNCHANGED <<intervals, gameEnded, feedbackStatus, feedbackMessage,
                           feedbackVisible>>
       ELSE /\ intervals' = intervals \ {timerInterval}
            /\ endGame
            /\ UNCHANGED timeLeft
  /\ updatePending' = TRUE
  /\ ticks' = ticks + 1
  /\ scriptTask' = FALSE
  /\ lastOp' = ""
  /\ thrown' = ""
  /\ UNCHANGED <<verses, currentVerse, score, timerInterval, connected, mounts, loads,
                 changedCurrent, poolReplaced, revealsWaiting, revealsReady, dom>>

\* ---------------------------------------------------------- specification
\* A game under way with LateTime seconds left: the element was mounted, its
\* initial load and the refills of the first renders settled (the last one
\* with book b2), startGame drew v from the pool of book b, and the
\* countdown ran with nobody touching the controls.
InitLate ==
  \E b \in Books, b2 \in Books : \E v \in Range(MapChapter(b, 1)) :
    /\ verses = MapChapter(b2, 1)
    /\ score = 0
    /\ timeLeft = LateTime
    /\ feedbackVisible = FALSE
    /\ feedbackStatus = ""
    /\ feedbackMessage = NoMessage
    /\ gameEnded = FALSE
    /\ currentVerse = v
    /\ timerInterval = 1
    /\ intervals = {1}
    /\ connected = TRUE
    /\ mounts = 1
    /\ loads = [k \in Callers |-> 0]
    /\ updatePending = FALSE
    /\ changedCurrent = FALSE
    /\ poolReplaced = TRUE
    /\ revealsWaiting = 0
    /\ revealsReady = 0
    /\ dom = [rendered |-> TRUE, input |-> TRUE, next |-> FALSE]
    /\ scriptTask = FALSE
    /\ thrown = ""
    /\ ticks = 0
    /\ lastOp = ""

\* The unattended game: lifecycle, loads, updates and the timer.
Unattended ==
  \/ connectedCallback
  \/ disconnectedCallback
  \/ \E b \in Books : \E c \in 1..Len(Documents(b)) : loadVersesResolves(b, c)
  \/ \E caller \in Callers, b \in Books, f \in Failures : loadVersesFails(caller, b, f)
  \/ \E b \in Books : \E c \in 1..Len(Documents(b)) :
       \E v \in Range(MapChapter(b, c)) : connectedCallbackResumes(b, c, v)
  \/ performUpdate

\* The user's controls and the callbacks they queue.
Attended ==
  \/ \E v \in Draw(verses) : NextClick(v)
  \/ \E value \in Inputs : submitGuess(value)
  \/ revealFeedback
  \/ skipVerse

Next ==
  \/ Unattended
  \/ Attended
  \/ \E i \in intervals : ticks < MaxSeconds /\ tick(i)

\* Every behaviour of the element over MaxSeconds timer callbacks, from its
\* construction or from a game that is LateTime seconds from its end.
Spec == (Init \/ InitLate) /\ [][Next]_vars

NextCountdown ==
  \/ Unattended
  \/ \E i \in intervals : ticks < MaxTicks /\ tick(i)

\* The whole countdown of an element nobody touches, from its construction.
SpecCountdown == Init /\ [][NextCountdown]_vars

\* The update and the updateComplete callbacks are microtasks: the event
\* loop runs every queued microtask before it starts another task.
Fairness == WF_vars(performUpdate) /\ WF_vars(revealFeedback)

\* Spec with the microtask queue always drained in the end.
SpecLive == Spec /\ Fairness

\* The games InitLate starts from: SpecCountdown reaches each of them after
\* InitialTime - LateTime timer callbacks.
LateGame ==
  \E b \in Books, b2 \in Books : \E v \in Range(MapChapter(b, 1)) :
    /\ verses = MapChapter(b2, 1) /\ currentVerse = v /\ poolReplaced
    /\ score = 0 /\ timeLeft = LateTime /\ ~feedbackVisible /\ feedbackStatus = ""
    /\ feedbackMessage = NoMessage /\ ~gameEnded /\ timerInterval = 1 /\ intervals = {1}
    /\ connected /\ mounts = 1 /\ InFlight = 0 /\ ~updatePending /\ ~changedCurrent
    /\ revealsWaiting = 0 /\ revealsReady = 0
    /\ dom = [rendered |-> TRUE, input |-> TRUE, next |-> FALSE]
    /\ ~scriptTask /\ thrown = "" /\ lastOp = ""

\* ------------------------------------------------------------------ claims
Round == <<score, feedbackStatus, feedbackMessage, feedbackVisible, currentVerse>>

\* The steps of each handler.  The first conjunct of each is implied by the
\* action and is there to decide most steps without evaluating the action.
SubmitStep == lastOp' = "submitGuess" /\ \E value \in Inputs : submitGuess(value)
SkipStep == lastOp' = "skipVerse" /\ skipVerse
NextClickStep == lastOp' = "nextVerse" /\ \E v \in Draw(verses) : NextClick(v)
StartGameStep ==
  /\ timerInterval' # timerInterval
  /\ \E b \in Books : \E c \in 1..Len(Documents(b)) :
       \E v \in Range(MapChapter(b, c)) : connectedCallbackResumes(b, c, v)
TickStep == ticks' # ticks /\ \E i \in intervals : tick(i)
LoadFailsStep ==
  /\ thrown' = "ReferenceError"
  /\ \E caller \in Callers, b \in Books, f \in Failures : loadVersesFails(caller, b, f)
RefillFailsStep ==
  /\ thrown' = "ReferenceError"
  /\ \E b \in Books, f \in Failures : loadVersesFails("updated", b, f)

\* C1: every failing loadVerses completes without an exception escaping and
\* leaves the pool as exactly one error placeholder whose book field is a
\* raw book identifier.
C1_FailedLoadLeavesPlaceholder ==
  [][LoadFailsStep => /\ \E b \in Books : verses' = <<ErrorRecord(b)>>
                      /\ thrown' = ""]_vars

\* C2: a load failure is not surfaced to the timer or the score: once the
\* initial load of every mount has settled, succeeded or failed, startGame
\* has run and set the countdown interval; and a failing refill changes
\* neither score nor timeLeft nor the set of running intervals.
C2_LoadFailureNotSurfaced ==
  /\ [](mounts > 0 /\ loads["connectedCallback"] = 0 => timerInterval # Null)
  /\ [][RefillFailsStep => UNCHANGED <<score, timeLeft, intervals>>]_vars

\* C3: from timeLeft = 180, once exactly 180 timer callbacks have run the
\* game has ended with status 'ended'.
C3_EndedAfter180Ticks ==
  ticks = InitialTime => gameEnded /\ feedbackStatus = "ended"

\* C4: once gameEnded is true every submitGuess or skipVerse is a no-op on
\* score, status, message, visibility, current verse and gameEnded, and a
\* further endGame (the timer callback of an ended game) yields the ended
\* state again, with the same score in its message.
C4_EndedIsFrozen ==
  [][gameEnded =>
       /\ (SubmitStep \/ SkipStep) => UNCHANGED <<Round, gameEnded>>
       /\ TickStep => /\ UNCHANGED <<score, currentVerse, gameEnded>>
                      /\ feedbackStatus' = "ended"
                      /\ feedbackVisible'
                      /\ feedbackMessage' = EndedMessage(score)]_vars

\* C4 witness: the Skip control was used on an ended game.
C4_Witness == gameEnded /\ lastOp = "skipVerse"

\* C5: gameEnded is true iff feedbackStatus = 'ended' and timeLeft = 0, and
\* timeLeft = 0 is never reached with the game still open.
C5_EndedIffStatusAndTime ==
  /\ gameEnded <=> (feedbackStatus = "ended" /\ timeLeft = 0)
  /\ timeLeft = 0 => gameEnded

\* C6: feedbackVisible implies a status other than the empty one.
C6_VisibleHasStatus ==
  feedbackVisible => feedbackStatus \in {"correct", "wrong", "skipped", "ended"}

\* C7: feedbackStatus changes only along none -> correct | wrong | skipped,
\* correct | wrong | skipped -> none (by nextVerse), none -> ended (by the
\* timer); 'ended' never changes.
C7_StatusEdges ==
  [][feedbackStatus' # feedbackStatus =>
       \/ feedbackStatus = "" /\ feedbackStatus' \in {"correct", "wrong", "skipped"}
       \/ /\ feedbackStatus \in {"correct", "wrong", "skipped"}
          /\ feedbackStatus' = ""
          /\ (NextClickStep \/ StartGameStep)
       \/ feedbackStatus = "" /\ feedbackStatus' = "ended" /\ TickStep]_vars

\* C8: score changes only by +1, and only in a submitGuess whose trimmed
\* input matches the current verse's book ignoring case.
C8_ScoreOnlyOnCorrectGuess ==
  [][score' # score =>
       /\ score' = score + 1
       /\ lastOp' = "submitGuess"
       /\ \E value \in Inputs :
            /\ submitGuess(value)
            /\ toLowerCase(trim(value)) = toLowerCase(BookOf(currentVerse))]_vars

\* C8 witness: a correct guess has just scored.
C8_Witness == score > 0 /\ lastOp = "submitGuess" /\ feedbackStatus = "correct"

\* C9: nextVerse on a non-empty pool sets currentVerse to an element of the
\* pool as it is at the call, hides the feedback and empties status and
\* message.
C9_NextVerseDrawsFromPool ==
  [][/\ NextClickStep /\ verses # <<>> =>
          /\ currentVerse' \in Range(verses)
          /\ ~feedbackVisible' /\ feedbackStatus' = "" /\ feedbackMessage' = NoMessage
     /\ StartGameStep /\ verses' # <<>> =>
          /\ currentVerse' \in Range(verses')
          /\ ~feedbackVisible' /\ feedbackStatus' = "" /\ feedbackMessage' = NoMessage]_vars

\* C9 witness: Next was used on a non-empty pool after a guess was shown.
C9_Witness ==
  /\ lastOp = "nextVerse" /\ verses # <<>> /\ currentVerse \in Range(verses)
  /\ ~feedbackVisible /\ feedbackStatus = "" /\ score > 0

\* C10: while feedbackVisible is true submitGuess and skipVerse change
\* nothing of the round state.
C10_VisibleFeedbackFreezesRound ==
  [][feedbackVisible /\ (SubmitStep \/ SkipStep) => UNCHANGED Round]_vars

\* C10 witness: Submit was used while the feedback was visible.
C10_Witness == feedbackVisible /\ ~gameEnded /\ lastOp = "submitGuess"

\* An input that is empty or made of white space only.
Blank(value) == \A i \in 1..Len(value) : value[i] \in WhiteSpace

BlankSubmitStep ==
  /\ lastOp' = "submitGuess"
  /\ \E value \in Inputs : Blank(value) /\ submitGuess(value)

\* C11: submitGuess with an input that is empty or only white space is a
\* no-op: feedbackVisible stays as it was (false when it was false), score,
\* status and message are unchanged, no reveal callback is queued and no
\* exception escapes.
C11_BlankGuessIsNoOp ==
  [][BlankSubmitStep => /\ UNCHANGED <<Round, revealsWaiting, revealsReady>>
                        /\ thrown' = ""]_vars

\* C11 witness: Submit was used with a blank input on an open round that
\* shows a verse, and nothing is queued.
C11_Witness ==
  /\ lastOp = "submitGuess" /\ thrown = "" /\ ~feedbackVisible /\ ~gameEnded
  /\ "book" \in DOMAIN currentVerse /\ feedbackStatus = ""
  /\ revealsWaiting + revealsReady = 0

\* Two strings that differ at most in the case of their letters.
SameLetter(a, b) ==
  \/ a = b
  \/ a \in DOMAIN Lower /\ Lower[a] = b
  \/ b \in DOMAIN Lower /\ Lower[b] = a
EqualIgnoringCase(s, t) == Len(s) = Len(t) /\ \A i \in 1..Len(s) : SameLetter(s[i], t[i])

\* C12: for every current verse and every input that is not blank, a
\* submitGuess with the feedback hidden and the game not ended gives status
\* 'correct', score + 1 and the message 'Correct!' exactly when the trimmed
\* input equals the verse's book name up to letter case, and otherwise
\* status 'wrong', the same score and a message naming the verse's book.
C12_GuessComparedIgnoringCase ==
  [][\A value \in Inputs :
       /\ lastOp' = "submitGuess"
       /\ ~Blank(value) /\ ~feedbackVisible /\ ~gameEnded
       /\ "book" \in DOMAIN currentVerse
       /\ submitGuess(value)
       => IF EqualIgnoringCase(trim(value), currentVerse.book)
            THEN /\ score' = score + 1
                 /\ feedbackStatus' = "correct"
                 /\ feedbackMessage' = CorrectMessage
            ELSE /\ score' = score
                 /\ feedbackStatus' = "wrong"
                 /\ feedbackMessage' = WrongMessage(currentVerse.book)]_vars

\* C12 witness: a guess has just been judged wrong after an earlier one on
\* another verse was judged correct.
C12_Witness ==
  /\ lastOp = "submitGuess" /\ feedbackStatus = "wrong" /\ ~feedbackVisible
  /\ "book" \in DOMAIN currentVerse
  /\ feedbackMessage = WrongMessage(currentVerse.book)
  /\ score = 1 /\ revealsWaiting + revealsReady = 1

\* C13: skipVerse with the feedback hidden and the game not ended sets, in
\* that same step, status 'skipped', feedbackVisible = true and a message
\* naming the book of the current verse, and leaves score and currentVerse
\* as they were.
C13_SkipShowsBook ==
  [][SkipStep /\ ~feedbackVisible /\ ~gameEnded =>
       /\ feedbackStatus' = "skipped"
       /\ feedbackVisible'
       /\ "book" \in DOMAIN currentVerse
       /\ feedbackMessage' = SkippedMessage(currentVerse.book)
       /\ UNCHANGED <<score, currentVerse>>]_vars

\* C14: after disconnectedCallback no countdown interval is active until the
\* element is mounted again, whatever the order of the teardown and the
\* completion of the initial load: while the element is out of the document
\* no interval exists, so no timer callback runs and timeLeft stays.
C14_NoTimerWhileDisconnected ==
  /\ [](~connected => intervals = {})
  /\ [][~connected /\ ~connected' => timeLeft' = timeLeft]_vars

\* C15: after a submitGuess that accepts a guess feedbackVisible stays false
\* until the callback it left on updateComplete runs, and that callback
\* runs in the end, so every accepted guess is followed by a state with
\* feedbackVisible = true.
C15_GuessRevealedAfterUpdate ==
  /\ [](revealsWaiting + revealsReady > 0 => ~feedbackVisible)
  /\ (revealsWaiting + revealsReady > 0) ~> feedbackVisible

RefillStartStep == loads'["updated"] > loads["updated"] /\ performUpdate
RefillResolvesStep ==
  /\ loads'["updated"] < loads["updated"] /\ thrown' = ""
  /\ \E b \in Books : \E c \in 1..Len(Documents(b)) : loadVersesResolves(b, c)

C17_OneVerdictPerVerse ==
  [][feedbackStatus # "" /\ (SubmitStep \/ SkipStep) =>
       UNCHANGED <<score, feedbackStatus>>]_vars

\* C18: feedbackStatus is correct, wrong or skipped only while currentVerse
\* is a verse record; a submitGuess or skipVerse while currentVerse is still
\* the constructor's empty object (the initial load has not completed)
\* produces no feedback and no error; and nextVerse never runs on an empty
\* pool.
C18_NoRoundBeforeFirstVerse ==
  /\ [](feedbackStatus \in {"correct", "wrong", "skipped"} => "book" \in DOMAIN currentVerse)
  /\ [][/\ currentVerse = EmptyObject /\ (SubmitStep \/ SkipStep) =>
             /\ UNCHANGED <<Round, revealsWaiting, revealsReady>>
             /\ thrown' = ""
        /\ NextClickStep => verses # <<>>]_vars

MountStep == mounts' # mounts /\ connectedCallback

C20_AtMostOneInterval == Cardinality(intervals) <= 1 /\ timeLeft \in 0..InitialTime

TypeOK ==
  /\ score \in 0..MaxScore
  /\ timeLeft \in 0..InitialTime
  /\ InFlight <= MaxLoads
  /\ revealsWaiting + revealsReady <= MaxReveals
  /\ mounts \in 0..MaxMounts
====
